---- MODULE Spec2Model ----
(***************************************************************************)
(* Model of the PortaPack application-core event dispatcher                *)
(* (firmware/application/event_m0.cpp) and of the touch state machine      *)
(* (touch::Manager::feed).                                                 *)
(***************************************************************************)
EXTENDS Integers, Sequences, FiniteSets

(***************************************************************************)
(* Bounds of the model.                                                    *)
(***************************************************************************)
\* Number of message IDs below Message::ID::MAX.
ID_MAX == 2
\* Number of distinct handler closures.
NumHandlers == 2
\* Number of MessageHandlerRegistration objects that may be alive.
NumRegs == 2

\* Largest x pixel coordinate a touch sample may have.
MaxX == 2

\* Number of hardware switches in switches_state.
NumSwitches == 2
\* Largest number of messages one queue drain finds.
MaxQueue == 2

Null == 0

MessageIDs == 0 .. (ID_MAX - 1)
\* IDs a message may carry: Message::ID is an integer enumeration, so a
\* message may carry MAX itself or a larger value.
AnyIDs == 0 .. (ID_MAX + 1)
Handlers == 1 .. NumHandlers
RegObjects == 1 .. NumRegs

VARIABLES
    map_,        \* MessageHandlerMap::map_ : ID -> handler or Null
    reg_id,      \* live MessageHandlerRegistration objects: object -> message_id, or -1
    panicked,    \* chDbgPanic has halted the system
    last_registered, \* per ID, the handler of the latest registration that did not panic
    last_op      \* the last operation on the handler map and what it invoked

mapVars == <<map_, reg_id, panicked, last_registered, last_op>>

VARIABLES
    state,            \* touch::Manager::state
    filter_x,         \* touch::Manager::filter_x : samples held since the last reset
    filter_y,         \* touch::Manager::filter_y
    captured_widget,  \* EventDispatcher::captured_widget, or Null
    hidden,           \* the widgets whose hidden() is true
    touch_event,      \* the event the last feed emitted (type "None": no event)
    last_emitted,     \* type of the latest event emitted by any feed
    event_consumers,  \* the widgets whose on_touch returns true for touch_event
    on_touch_calls,   \* widgets whose on_touch the last feed invoked, in order
    hit_widget,       \* what touch_widget returned for the latest Start event
    filter_stale      \* how many of the samples the filters hold were fed before the latest End

touchVars == <<state, filter_x, filter_y, captured_widget, hidden, touch_event,
               last_emitted, event_consumers, on_touch_calls, hit_widget, filter_stale>>

VARIABLES
    pc,              \* position of the event loop thread in run() / dispatch()
    events,          \* the eventmask_t that wait() returned for this cycle
    is_running,      \* EventDispatcher::is_running
    display_sleep,   \* EventDispatcher::display_sleep
    encoder_last,    \* EventDispatcher::encoder_last (uint32_t)
    m4txevent,       \* the cross-core notification is enabled
    ran,             \* handlers invoked so far in this cycle, in order
    stage_log,       \* callbacks invoked by the latest stage of dispatch
    gate,            \* outcome of the test of line 156 in this cycle
    sleep_at_entry,  \* display_sleep when this cycle was entered
    woke,            \* set_display_sleep(false) was called in this cycle
    swallowed,       \* handle_switches took its display_sleep branch in this cycle
    switches_seen,   \* the switches_state read by handle_switches, when it was the latest stage
    drained          \* the messages the queue held that the latest stage drained

VARIABLES
    m4_signal,       \* the M4 core has raised the cross-core notification, not yet cleared
    app_event,       \* EVT_MASK_APPLICATION was signalled from the interrupt, not yet returned by wait()
    irq_log          \* callbacks invoked inside the latest run of M4Core_IRQHandler

irqVars == <<m4_signal, app_event, irq_log>>

VARIABLES
    focus_seen,        \* focus_manager().focus_widget() as the latest stage found it, or Null
    consumer_seen,     \* the widget whose on_key / on_encoder returns true in the latest stage, or Null
    encoder_position,  \* the position counter of the rotary encoder (uint32_t)
    encoder_base,      \* the encoder position at the latest handled encoder event or wake of the display
    encoder_event,     \* the EncoderEvent the latest stage passed to event_bubble_encoder
    delta_sum          \* sum of the deltas of all encoder events so far, modulo 2^32

inputVars == <<focus_seen, consumer_seen, encoder_position, encoder_base, encoder_event,
               delta_sum>>

dispVars == <<pc, events, is_running, display_sleep, encoder_last, m4txevent>>
cycleVars == <<ran, stage_log, gate, sleep_at_entry, woke, swallowed, switches_seen,
               drained>>

vars == <<mapVars, touchVars, dispVars, cycleVars, irqVars, inputVars>>

(***************************************************************************)
(* MessageHandlerMap                                                       *)
(***************************************************************************)
\* A register_handler without the double-registration check.
register_handler_nocheck(m, id, h) ==
    [map |-> [m EXCEPT ![id] = h], panic |-> FALSE]

\* register_handler: chDbgPanic halts, so the assignment after it is not
\* reached when the slot is occupied.
register_handler(m, id, h) ==
    IF m[id] /= Null
    THEN [map |-> m, panic |-> TRUE]
    ELSE [map |-> [m EXCEPT ![id] = h], panic |-> FALSE]

\* An unregister_handler that leaves the slot as it is.
unregister_handler_keep(m, id) == m

unregister_handler(m, id) == [m EXCEPT ![id] = Null]

\* A send that calls the slot without testing it.
send_notest(m, id) ==
    IF id < ID_MAX THEN <<m[id]>> ELSE <<>>

\* send: the sequence of handlers it invokes.
send(m, id) ==
    IF id < ID_MAX
    THEN IF m[id] /= Null THEN <<m[id]>> ELSE <<>>
    ELSE <<>>

NoOp == [op |-> "none", id |-> 0, h |-> Null, obj |-> 0, occupied |-> FALSE, calls |-> <<>>]

InitMap ==
    /\ map_ = [id \in MessageIDs |-> Null]
    /\ reg_id = [o \in RegObjects |-> -1]
    /\ panicked = FALSE
    /\ last_registered = [id \in MessageIDs |-> Null]
    /\ last_op = NoOp

\* MessageHandlerRegistration constructor.
RegistrationCtor(o, id, h) ==
    /\ ~panicked
    /\ reg_id[o] = -1
    /\ LET r == register_handler(map_, id, h)
       IN /\ map_' = r.map
          /\ panicked' = r.panic
          /\ reg_id' = IF r.panic THEN reg_id ELSE [reg_id EXCEPT ![o] = id]
          /\ last_registered' = IF r.panic THEN last_registered
                                 ELSE [last_registered EXCEPT ![id] = h]
          /\ last_op' = [op |-> "register", id |-> id, h |-> h, obj |-> o,
                         occupied |-> (map_[id] /= Null), calls |-> <<>>]

\* MessageHandlerRegistration destructor.
RegistrationDtor(o) ==
    /\ ~panicked
    /\ reg_id[o] /= -1
    /\ map_' = unregister_handler(map_, reg_id[o])
    /\ reg_id' = [reg_id EXCEPT ![o] = -1]
    /\ last_op' = [op |-> "unregister", id |-> reg_id[o], h |-> Null, obj |-> o,
                   occupied |-> (map_[reg_id[o]] /= Null), calls |-> <<>>]
    /\ UNCHANGED <<panicked, last_registered>>

\* message_map.send(message) for a message carrying id.
Send(id) ==
    /\ ~panicked
    /\ last_op' = [op |-> "send", id |-> id, h |-> Null, obj |-> 0,
                   occupied |-> FALSE, calls |-> send(map_, id)]
    /\ UNCHANGED <<map_, reg_id, panicked, last_registered>>

(***************************************************************************)
(* Widget tree                                                             *)
(***************************************************************************)
Widgets == 1 .. 4
top_widget == 1

\* children() of each widget, in draw order.
children ==
    [w \in Widgets |-> CASE w = 1 -> <<2, 3>>
                         [] w = 2 -> <<4>>
                         [] OTHER -> <<>>]

\* parent() of each widget.
parent == [w \in Widgets |-> CASE w = 1 -> Null [] w = 4 -> 2 [] OTHER -> 1]

\* The y pixel coordinates of the samples: the widgets are laid out along x,
\* on a screen one pixel row high.
Rows == {0}

\* screen_rect() of each widget; widgets 2 and 3 overlap.
screen_rect ==
    [w \in Widgets |->
        CASE w = 1 -> [left |-> 0, right |-> MaxX + 1, top |-> 0, bottom |-> 1]
          [] w = 2 -> [left |-> 0, right |-> 2, top |-> 0, bottom |-> 1]
          [] w = 3 -> [left |-> 1, right |-> MaxX + 1, top |-> 0, bottom |-> 1]
          [] OTHER -> [left |-> 0, right |-> 1, top |-> 0, bottom |-> 1]]

\* ui::Rect::contains
contains(r, p) ==
    /\ p.x >= r.left
    /\ p.y >= r.top
    /\ p.x < r.right
    /\ p.y < r.bottom

Points == [x : 0 .. MaxX, y : Rows]

(***************************************************************************)
(* touch::Manager                                                          *)
(***************************************************************************)
\* Window of a coordinate filter and tolerance of point_stable().
FilterLen == 2
StableBound == 2
r_touch_threshold == 100

\* A frame as feed sees it: the contact flag, the resistance that
\* calculate_metrics derives and the pixel coordinates of lines 84 and 86.
Frames == [touch : BOOLEAN, r : {50, 150}, x : 0 .. MaxX, y : Rows]

\* Filter::feed: keep the latest FilterLen samples.
filter_feed(f, v) ==
    LET g == Append(f, v)
    IN IF Len(g) > FilterLen THEN Tail(g) ELSE g

\* Filter::reset
filter_reset == <<>>

RECURSIVE SeqSum(_)
SeqSum(f) == IF f = <<>> THEN 0 ELSE Head(f) + SeqSum(Tail(f))

\* Filter::value: the average over the window.
filter_value(f) == SeqSum(f) \div FilterLen

SeqMax(f) == CHOOSE v \in {f[i] : i \in 1 .. Len(f)} : \A i \in 1 .. Len(f) : f[i] <= v
SeqMin(f) == CHOOSE v \in {f[i] : i \in 1 .. Len(f)} : \A i \in 1 .. Len(f) : f[i] >= v

\* Filter::stable: the window is full and its spread is below the bound.
filter_stable(f) ==
    /\ Len(f) = FilterLen
    /\ SeqMax(f) - SeqMin(f) < StableBound

\* touch::Manager::point_stable
point_stable(fx, fy) == filter_stable(fx) /\ filter_stable(fy)

\* touch::Manager::filtered_point
filtered_point(fx, fy) == [x |-> filter_value(fx), y |-> filter_value(fy)]

\* A switch whose TouchDetected case emits End and forgets to leave the state.
feed_switch_sticky(st, qualified, stable) ==
    CASE st = "NoTouch" ->
           IF qualified /\ stable
           THEN [state |-> "TouchDetected", type |-> "Start"]
           ELSE [state |-> "NoTouch", type |-> "None"]
      [] st = "TouchDetected" ->
           IF qualified
           THEN [state |-> "TouchDetected", type |-> "Move"]
           ELSE [state |-> "TouchDetected", type |-> "End"]
      [] OTHER -> [state |-> "NoTouch", type |-> "None"]

\* A switch whose TouchDetected case asks for a stable point before it
\* reports a Move.
feed_switch_stable_move(st, qualified, stable) ==
    CASE st = "NoTouch" ->
           IF qualified /\ stable
           THEN [state |-> "TouchDetected", type |-> "Start"]
           ELSE [state |-> "NoTouch", type |-> "None"]
      [] st = "TouchDetected" ->
           IF qualified /\ stable
           THEN [state |-> "TouchDetected", type |-> "Move"]
           ELSE [state |-> "NoTouch", type |-> "End"]
      [] OTHER -> [state |-> "NoTouch", type |-> "None"]

\* The switch(state) of touch::Manager::feed. qualified: touch_stable &&
\* touch_pressure; stable: point_stable().
feed_switch(st, qualified, stable) ==
    CASE st = "NoTouch" ->
           IF qualified /\ stable
           THEN [state |-> "TouchDetected", type |-> "Start"]
           ELSE [state |-> "NoTouch", type |-> "None"]
      [] st = "TouchDetected" ->
           IF qualified
           THEN [state |-> "TouchDetected", type |-> "Move"]
           ELSE [state |-> "NoTouch", type |-> "End"]
      [] OTHER -> [state |-> "NoTouch", type |-> "None"]

\* touch::Manager::feed: the new state and filters and the event emitted.
feed(st, fx, fy, frame) ==
    LET touch_raw == frame.touch
        touch_stable == frame.touch
        touch_pressure == touch_raw /\ (frame.r < r_touch_threshold)
        nfx == IF touch_raw
               THEN IF touch_pressure THEN filter_feed(fx, frame.x) ELSE fx
               ELSE filter_reset
        nfy == IF touch_raw
               THEN IF touch_pressure THEN filter_feed(fy, frame.y) ELSE fy
               ELSE filter_reset
        sw == feed_switch(st, touch_stable /\ touch_pressure, point_stable(nfx, nfy))
    IN [state |-> sw.state, filter_x |-> nfx, filter_y |-> nfy,
        event |-> [type |-> sw.type, point |-> filtered_point(nfx, nfy)]]

(***************************************************************************)
(* EventDispatcher: hit test and touch capture                             *)
(***************************************************************************)
NoHit == [widget |-> Null, calls |-> <<>>]

RECURSIVE touch_widget(_, _, _, _)
RECURSIVE touch_children(_, _, _, _, _)

\* A touch_widget that does not look at hidden().
touch_widget_hidden(w, point, consumers, hid) ==
    LET d == touch_children(children[w], point, consumers, hid, <<>>)
    IN IF d.widget /= Null
       THEN d
       ELSE IF contains(screen_rect[w], point)
            THEN [widget |-> IF w \in consumers THEN w ELSE Null,
                  calls |-> Append(d.calls, w)]
            ELSE [widget |-> Null, calls |-> d.calls]

\* The loop of touch_widget over kids (a sequence of widgets), from its
\* first element on: the first child that yields a widget ends the loop.
\* calls: the on_touch invocations made so far.
touch_children(kids, point, consumers, hid, calls) ==
    IF kids = <<>>
    THEN [widget |-> Null, calls |-> calls]
    ELSE LET r == touch_widget(Head(kids), point, consumers, hid)
         IN IF r.widget /= Null
            THEN [widget |-> r.widget, calls |-> calls \o r.calls]
            ELSE touch_children(Tail(kids), point, consumers, hid, calls \o r.calls)

\* EventDispatcher::touch_widget: the widget returned and the on_touch
\* invocations made. consumers: the widgets whose on_touch returns true.
touch_widget(w, point, consumers, hid) ==
    IF w \notin hid
    THEN LET d == touch_children(children[w], point, consumers, hid, <<>>)
         IN IF d.widget /= Null
            THEN d
            ELSE IF contains(screen_rect[w], point)
                 THEN [widget |-> IF w \in consumers THEN w ELSE Null,
                       calls |-> Append(d.calls, w)]
                 ELSE [widget |-> Null, calls |-> d.calls]
    ELSE NoHit

\* An on_touch_event that keeps the widget it had captured when the hit test
\* of a Start finds none.
on_touch_event_keep(cap, event, consumers, hid) ==
    LET t == IF event.type = "Start"
             THEN touch_widget(top_widget, event.point, consumers, hid)
             ELSE [widget |-> cap, calls |-> <<>>]
        kept == IF t.widget /= Null THEN t.widget ELSE cap
    IN [captured |-> kept,
        hit |-> t,
        calls |-> IF kept /= Null THEN Append(t.calls, kept) ELSE t.calls]

\* An on_touch_event that hit-tests every event, not only Start.
on_touch_event_rehit(cap, event, consumers, hid) ==
    LET t == touch_widget(top_widget, event.point, consumers, hid)
    IN [captured |-> t.widget,
        hit |-> t,
        calls |-> IF t.widget /= Null THEN Append(t.calls, t.widget) ELSE t.calls]

\* EventDispatcher::on_touch_event: the new captured widget and the on_touch
\* invocations made.
on_touch_event(cap, event, consumers, hid) ==
    LET t == IF event.type = "Start"
             THEN touch_widget(top_widget, event.point, consumers, hid)
             ELSE [widget |-> cap, calls |-> <<>>]
    IN [captured |-> t.widget,
        hit |-> t,
        calls |-> IF t.widget /= Null THEN Append(t.calls, t.widget) ELSE t.calls]

NoEvent == [type |-> "None", point |-> [x |-> 0, y |-> 0]]

\* Of the samples a filter holds after feed took frame, those that it held
\* before and that were counted as n then: none after a reset, the same
\* when nothing was fed, one less when the feed pushed the oldest out.
stale_after(n, before, after, frame) ==
    IF after = filter_reset THEN 0
    ELSE IF after = before /\ ~(frame.touch /\ frame.r < r_touch_threshold) THEN n
    ELSE IF Len(before) = FilterLen /\ n > 0 THEN n - 1
    ELSE n

InitTouch ==
    /\ state = "NoTouch"
    /\ filter_x = <<>>
    /\ filter_y = <<>>
    /\ captured_widget = Null
    /\ hidden \in SUBSET (Widgets \ {top_widget})
    /\ touch_event = NoEvent
    /\ last_emitted = "None"
    /\ event_consumers = {}
    /\ on_touch_calls = <<>>
    /\ hit_widget = Null
    /\ filter_stale = 0

\* feed emits an event for this frame, so that the widgets' on_touch answers
\* are asked for.
Emits(frame) == feed(state, filter_x, filter_y, frame).event.type /= "None"

\* EventDispatcher::handle_touch: touch_manager.feed(get_touch_frame()), whose
\* on_event callback is on_touch_event.
HandleTouch(frame, consumers) ==
    LET f == feed(state, filter_x, filter_y, frame)
        emits == f.event.type /= "None"
        t == on_touch_event(captured_widget, f.event, consumers, hidden)
    IN /\ state' = f.state
       /\ filter_x' = f.filter_x
       /\ filter_y' = f.filter_y
       /\ touch_event' = IF emits THEN f.event ELSE NoEvent
       /\ last_emitted' = IF emits THEN f.event.type ELSE last_emitted
       /\ event_consumers' = IF emits THEN consumers ELSE {}
       /\ captured_widget' = IF emits THEN t.captured ELSE captured_widget
       /\ on_touch_calls' = IF emits THEN t.calls ELSE <<>>
       /\ hit_widget' = IF f.event.type = "Start" THEN t.hit.widget ELSE hit_widget
       /\ filter_stale' = IF f.event.type = "End" THEN Len(f.filter_x)
                          ELSE stale_after(filter_stale, filter_x, f.filter_x, frame)
       /\ UNCHANGED hidden

(***************************************************************************)
(* EventDispatcher: run loop and dispatch                                  *)
(***************************************************************************)
\* The event bits, named by the handler each selects, in the order in which
\* dispatch tests them.
StageOrder == <<"application", "local", "rtc", "switches", "lcd", "encoder", "touch">>
Stages == {StageOrder[i] : i \in 1 .. Len(StageOrder)}
GatedStages == {"lcd", "encoder", "touch"}

StageIndex(st) == CHOOSE i \in 1 .. Len(StageOrder) : StageOrder[i] = st

\* A dispatch that tests the switches bit before the RTC tick bit.
next_stage_swapped(st) ==
    CASE st = "local" -> "switches"
      [] st = "switches" -> "rtc"
      [] st = "rtc" -> "lcd"
      [] st = "touch" -> "loop"
      [] OTHER -> StageOrder[StageIndex(st) + 1]

\* dispatch: the test that follows the one of st; after the last, dispatch
\* returns to the loop of run().
next_stage(st) ==
    IF st = "touch" THEN "loop" ELSE StageOrder[StageIndex(st) + 1]

\* A loop that does not look at is_running.
LoopForever == TRUE

\* run: the condition of the while loop.
LoopCondition == is_running

\* A gate that is always open.
gate_closed_never(sleep) == FALSE

\* dispatch: the test of display_sleep that guards the last three handlers.
gate_closed(sleep) == sleep

\* What a callback (message handler, widget callback) may do to the
\* dispatcher through its public interface.
Effects == {"none", "request_stop", "sleep", "wake"}

\* EventDispatcher::request_stop: the value is_running takes.
request_stop == FALSE

\* EventDispatcher::set_display_sleep: the value display_sleep takes.
set_display_sleep(sleep) == sleep

eff_running(eff, running) == IF eff = "request_stop" THEN request_stop ELSE running
eff_sleep(eff, sleep) ==
    CASE eff = "sleep" -> set_display_sleep(TRUE)
      [] eff = "wake" -> set_display_sleep(FALSE)
      [] OTHER -> sleep

Switches == 0 .. (NumSwitches - 1)
WidgetOrNull == Widgets \cup {Null}

\* The ID of DisplayFrameSyncMessage.
DisplayFrameSyncID == 0

\* IDs of the messages the loop finds in its queues: the one with a handler,
\* one below MAX without a handler, and MAX itself.
QueueIDs == {DisplayFrameSyncID, ID_MAX - 1, ID_MAX}

\* Message IDs found in a queue by one drain.
MsgSeqs == UNION {[1 .. n -> QueueIDs] : n \in 0 .. MaxQueue}

\* A drain that handles the message at the head of the queue only.
drain_head(m, msgs) ==
    IF msgs = <<>> THEN <<>>
    ELSE LET c == send(m, Head(msgs))
         IN IF c = <<>> THEN <<>> ELSE <<<<"handler", c[1], Head(msgs)>>>>

RECURSIVE drain(_, _)
\* MessageQueue::handle with the callback of handle_application_queue and
\* handle_local_queue: every queued message goes to message_map.send, in
\* order. The result lists the handler invocations.
drain(m, msgs) ==
    IF msgs = <<>> THEN <<>>
    ELSE LET c == send(m, Head(msgs))
         IN (IF c = <<>> THEN <<>> ELSE <<<<"handler", c[1], Head(msgs)>>>>)
               \o drain(m, Tail(msgs))

RECURSIVE bubble_on(_, _)
\* A walk that goes on to the parent after a widget has consumed the event.
bubble_on(target, consumer) ==
    IF target = Null THEN [widgets |-> <<>>, consumed |-> FALSE]
    ELSE LET r == bubble_on(parent[target], consumer)
         IN [widgets |-> <<target>> \o r.widgets,
             consumed |-> (target = consumer \/ r.consumed)]

RECURSIVE bubble(_, _)
\* The parent-chain walk of event_bubble_key and event_bubble_encoder:
\* the widgets whose callback is invoked, and whether one consumed the event.
\* consumer: the widget whose callback returns true, or Null.
bubble(target, consumer) ==
    IF target = Null THEN [widgets |-> <<>>, consumed |-> FALSE]
    ELSE IF target = consumer THEN [widgets |-> <<target>>, consumed |-> TRUE]
    ELSE LET r == bubble(parent[target], consumer)
         IN [widgets |-> <<target>> \o r.widgets, consumed |-> r.consumed]

\* event_bubble_key and, when it returns false, focus_manager().update.
key_calls(key, focus, consumer) ==
    LET b == bubble(focus, consumer)
    IN [n \in 1 .. Len(b.widgets) |-> <<"on_key", b.widgets[n], key>>]
         \o (IF b.consumed THEN <<>> ELSE <<<<"update", key>>>>)

RECURSIVE switches_loop(_, _, _, _)
\* The for loop of handle_switches from switch i on.
switches_loop(i, switches_state, focus, consumer) ==
    IF i >= NumSwitches THEN <<>>
    ELSE (IF i \in switches_state THEN key_calls(i, focus[i], consumer) ELSE <<>>)
            \o switches_loop(i + 1, switches_state, focus, consumer)

\* A handle_switches that wakes the display and then goes on into the loop.
handle_switches_fallthrough(sleep, switches_state, focus, consumer) ==
    [display_sleep |-> IF sleep /\ switches_state /= {}
                       THEN set_display_sleep(FALSE) ELSE sleep,
     swallowed |-> sleep,
     log |-> switches_loop(0, switches_state, focus, consumer)]

\* EventDispatcher::handle_switches: the new display_sleep, whether the
\* event was swallowed, and the callbacks invoked.
handle_switches(sleep, switches_state, focus, consumer) ==
    IF sleep
    THEN [display_sleep |-> IF switches_state /= {}
                            THEN set_display_sleep(FALSE) ELSE sleep,
          swallowed |-> TRUE,
          log |-> <<>>]
    ELSE [display_sleep |-> sleep,
          swallowed |-> FALSE,
          log |-> switches_loop(0, switches_state, focus, consumer)]

\* A uint32_t is held as its two 16-bit halves, value hi * 2^16 + lo.
U32(h, l) == [hi |-> h, lo |-> l]

\* Encoder positions get_encoder_position may return: 0, 1, 2^31 and
\* 2^32 - 1.
EncoderPositions == {U32(0, 0), U32(0, 1), U32(32768, 0), U32(65535, 65535)}
LoopEncoderPositions == {U32(0, 0), U32(65535, 65535)}

\* a - b in uint32_t arithmetic (modulo 2^32).
sub_u32(a, b) ==
    LET borrow == IF a.lo < b.lo THEN 1 ELSE 0
    IN U32((a.hi - b.hi - borrow) % 65536, (a.lo - b.lo) % 65536)

\* static_cast<int32_t> of a uint32_t value.
to_int32(u) ==
    IF u.hi >= 32768 THEN (u.hi - 65536) * 65536 + u.lo ELSE u.hi * 65536 + u.lo

\* A delta taken the wrong way round, encoder_last - encoder_now.
encoder_delta_swapped(encoder_now, last) == to_int32(sub_u32(last, encoder_now))

\* handle_encoder: the delta of the event.
encoder_delta(encoder_now, last) == to_int32(sub_u32(encoder_now, last))

NoEncoderEvent == [delivered |-> FALSE, delta |-> 0]

\* The encoder position from which the movement after the latest wake of
\* the display counts: pos when display_sleep goes from true to false.
base_after(sleep, sleep2, pos, base) == IF sleep /\ ~sleep2 THEN pos ELSE base

\* int32_t to uint32_t (two's complement).
from_int32(d) == U32((d \div 65536) % 65536, d % 65536)

\* a + b in uint32_t arithmetic (modulo 2^32).
add_u32(a, b) ==
    LET lo == a.lo + b.lo
    IN U32((a.hi + b.hi + (lo \div 65536)) % 65536, lo % 65536)

InitDispatcher ==
    /\ pc = "init"
    /\ events = {}
    /\ is_running = TRUE
    /\ display_sleep = FALSE
    /\ encoder_last = U32(0, 0)
    /\ m4txevent = FALSE
    /\ ran = <<>>
    /\ stage_log = <<>>
    /\ gate = "none"
    /\ sleep_at_entry = FALSE
    /\ woke = FALSE
    /\ swallowed = FALSE
    /\ switches_seen = {}
    /\ drained = <<>>
    /\ m4_signal = FALSE
    /\ app_event = FALSE
    /\ irq_log = <<>>
    /\ focus_seen = Null
    /\ consumer_seen = Null
    /\ encoder_position = U32(0, 0)
    /\ encoder_base = U32(0, 0)
    /\ encoder_event = NoEncoderEvent
    /\ delta_sum = U32(0, 0)

\* run: creg::m4txevent::enable().
RunStart ==
    /\ pc = "init"
    /\ m4txevent' = TRUE
    /\ pc' = "loop"
    /\ UNCHANGED <<events, is_running, display_sleep, encoder_last, cycleVars,
                   mapVars, touchVars, irqVars, inputVars>>

\* run: the loop condition holds and wait() returns the pending events evs.
Wait(evs) ==
    /\ pc = "loop"
    /\ LoopCondition
    /\ evs /= {}
    /\ app_event => "application" \in evs
    /\ app_event' = FALSE
    /\ events' = evs
    /\ pc' = StageOrder[1]
    /\ ran' = <<>>
    /\ stage_log' = <<>>
    /\ gate' = "none"
    /\ sleep_at_entry' = display_sleep
    /\ woke' = FALSE
    /\ swallowed' = FALSE
    /\ switches_seen' = {}
    /\ drained' = <<>>
    /\ focus_seen' = Null
    /\ consumer_seen' = Null
    /\ encoder_event' = NoEncoderEvent
    /\ touch_event' = NoEvent
    /\ event_consumers' = {}
    /\ on_touch_calls' = <<>>
    /\ UNCHANGED <<is_running, display_sleep, encoder_last, m4txevent, mapVars,
                   state, filter_x, filter_y, captured_widget, hidden, last_emitted,
                   hit_widget, filter_stale, m4_signal, irq_log, encoder_position, encoder_base,
                   delta_sum>>

\* run: the loop condition fails; creg::m4txevent::disable() and return.
RunExit ==
    /\ pc = "loop"
    /\ ~LoopCondition
    /\ m4txevent' = FALSE
    /\ pc' = "done"
    /\ UNCHANGED <<events, is_running, display_sleep, encoder_last, cycleVars,
                   mapVars, touchVars, irqVars, inputVars>>

\* Focus widgets and on_key / on_encoder consumers that the loop is driven
\* with.
LoopFocus == {Null, 4}
LoopKeyConsumers == {Null, 2}

\* What a stage does to the dispatcher when its callbacks have effect eff.
\* called: the stage invoked a callback at all.
Callbacks(called, eff) ==
    /\ called \/ eff = "none"
    /\ is_running' = eff_running(eff, is_running)
    /\ display_sleep' = eff_sleep(eff, display_sleep)
    /\ woke' = (woke \/ eff = "wake")
    /\ switches_seen' = {}

\* What a stage that reads neither the focus nor the encoder does to the
\* record of those: a callback of it may wake the display.
NoInput ==
    /\ focus_seen' = Null
    /\ consumer_seen' = Null
    /\ encoder_event' = NoEncoderEvent
    /\ encoder_base' = base_after(display_sleep, display_sleep', encoder_position,
                                  encoder_base)
    /\ UNCHANGED <<encoder_position, delta_sum>>

\* A stage whose bit is not pending.
Skip(st) ==
    /\ st \notin events
    /\ stage_log' = <<>>
    /\ switches_seen' = {}
    /\ drained' = <<>>
    /\ focus_seen' = Null
    /\ consumer_seen' = Null
    /\ encoder_event' = NoEncoderEvent
    /\ pc' = next_stage(st)
    /\ UNCHANGED <<events, is_running, display_sleep, m4txevent,
                   ran, gate, sleep_at_entry, woke, swallowed, mapVars, touchVars,
                   irqVars, encoder_position, encoder_base, delta_sum>>

\* Queue loads that the full loop is driven with: messages for the one
\* registered handler.
LoopMsgSeqs == {[n \in 1 .. k |-> DisplayFrameSyncID] : k \in 0 .. MaxQueue}

\* dispatch: EVT_MASK_APPLICATION and handle_application_queue, the queue
\* holding one of the loads Msgs.
DispatchApplication(Msgs) ==
    /\ pc = "application"
    /\ \/ Skip("application") /\ UNCHANGED encoder_last
       \/ /\ "application" \in events
          /\ \E msgs \in Msgs, eff \in Effects :
               LET calls == drain(map_, msgs)
               IN /\ stage_log' = calls
                  /\ drained' = msgs
                  /\ Callbacks(calls /= <<>>, eff)
          /\ NoInput
          /\ ran' = Append(ran, "application")
          /\ pc' = next_stage("application")
          /\ UNCHANGED <<events, encoder_last, m4txevent, gate, sleep_at_entry,
                         swallowed, mapVars, touchVars, irqVars>>

StageApplication == DispatchApplication(LoopMsgSeqs)

\* dispatch: EVT_MASK_LOCAL and handle_local_queue, the queue holding one of
\* the loads Msgs.
DispatchLocal(Msgs) ==
    /\ pc = "local"
    /\ \/ Skip("local") /\ UNCHANGED encoder_last
       \/ /\ "local" \in events
          /\ \E msgs \in Msgs, eff \in Effects :
               LET calls == drain(map_, msgs)
               IN /\ stage_log' = calls
                  /\ drained' = msgs
                  /\ Callbacks(calls /= <<>>, eff)
          /\ NoInput
          /\ ran' = Append(ran, "local")
          /\ pc' = next_stage("local")
          /\ UNCHANGED <<events, encoder_last, m4txevent, gate, sleep_at_entry,
                         swallowed, mapVars, touchVars, irqVars>>

StageLocal == DispatchLocal(LoopMsgSeqs)

\* dispatch: EVT_MASK_RTC_TICK and handle_rtc_tick, which calls into the SD
\* card, temperature logger and time collaborators only.
StageRtcTick ==
    /\ pc = "rtc"
    /\ \/ Skip("rtc") /\ UNCHANGED encoder_last
       \/ /\ "rtc" \in events
          /\ stage_log' = <<>>
          /\ switches_seen' = {}
          /\ drained' = <<>>
          /\ ran' = Append(ran, "rtc")
          /\ pc' = next_stage("rtc")
          /\ UNCHANGED <<events, is_running, display_sleep, encoder_last, m4txevent,
                         gate, sleep_at_entry, woke, swallowed, mapVars, touchVars,
                         irqVars>>
          /\ NoInput

\* dispatch: EVT_MASK_SWITCHES and handle_switches, then the test of
\* display_sleep of line 156, which selects the last three tests or the
\* return to the loop.
DispatchSwitches(Focus, Consumers) ==
    /\ pc = "switches"
    /\ \/ /\ "switches" \notin events
          /\ stage_log' = <<>>
          /\ switches_seen' = {}
          /\ focus_seen' = Null
          /\ consumer_seen' = Null
          /\ UNCHANGED <<is_running, display_sleep, ran, woke, swallowed, encoder_base>>
       \/ /\ "switches" \in events
          /\ \E switches_state \in SUBSET Switches, focus \in Focus,
                consumer \in Consumers, eff \in Effects :
               LET h == handle_switches(display_sleep, switches_state,
                                        [i \in Switches |-> focus], consumer)
               IN /\ eff = "none" \/ h.log /= <<>>
                  \* focus_widget() is asked for an active switch of an awake
                  \* display only, and on_key of a focused widget only.
                  /\ (display_sleep \/ switches_state = {}) => focus = Null
                  /\ (focus = Null) => consumer = Null
                  /\ stage_log' = h.log
                  /\ swallowed' = h.swallowed
                  /\ switches_seen' = switches_state
                  /\ focus_seen' = focus
                  /\ consumer_seen' = consumer
                  /\ is_running' = eff_running(eff, is_running)
                  /\ display_sleep' = eff_sleep(eff, h.display_sleep)
                  /\ woke' = (woke \/ eff = "wake" \/ (display_sleep /\ ~h.display_sleep))
                  /\ encoder_base' = base_after(display_sleep, h.display_sleep,
                                                encoder_position, encoder_base)
          /\ ran' = Append(ran, "switches")
    /\ drained' = <<>>
    /\ encoder_event' = NoEncoderEvent
    /\ gate' = IF gate_closed(display_sleep') THEN "closed" ELSE "open"
    /\ pc' = IF gate_closed(display_sleep') THEN "loop" ELSE next_stage("switches")
    /\ UNCHANGED <<events, encoder_last, m4txevent, sleep_at_entry, mapVars, touchVars,
                   irqVars, encoder_position, delta_sum>>

StageSwitches == DispatchSwitches(LoopFocus, LoopKeyConsumers)

\* dispatch: EVT_MASK_LCD_FRAME_SYNC and handle_lcd_frame_sync, which sends a
\* DisplayFrameSyncMessage and paints the widget tree.
StageLcdFrameSync ==
    /\ pc = "lcd"
    /\ \/ Skip("lcd") /\ UNCHANGED encoder_last
       \/ /\ "lcd" \in events
          /\ \E eff \in Effects :
               /\ stage_log' = drain(map_, <<DisplayFrameSyncID>>) \o <<<<"paint", top_widget>>>>
               /\ Callbacks(TRUE, eff)
          /\ drained' = <<>>
          /\ NoInput
          /\ ran' = Append(ran, "lcd")
          /\ pc' = next_stage("lcd")
          /\ UNCHANGED <<events, encoder_last, m4txevent, gate, sleep_at_entry,
                         swallowed, mapVars, touchVars, irqVars>>

\* dispatch: EVT_MASK_ENCODER and handle_encoder.
DispatchEncoder(Positions, Focus, Consumers) ==
    /\ pc = "encoder"
    /\ \/ Skip("encoder") /\ UNCHANGED encoder_last
       \/ /\ "encoder" \in events
          /\ \E encoder_now \in Positions, focus \in Focus,
                consumer \in Consumers, eff \in Effects :
               LET delta == encoder_delta(encoder_now, encoder_last)
                   b == bubble(focus, consumer)
               IN /\ (focus = Null) => consumer = Null
                  /\ encoder_position' = encoder_now
                  /\ encoder_last' = encoder_now
                  /\ encoder_base' = encoder_now
                  /\ encoder_event' = [delivered |-> TRUE, delta |-> delta]
                  /\ delta_sum' = add_u32(delta_sum, from_int32(delta))
                  /\ focus_seen' = focus
                  /\ consumer_seen' = consumer
                  /\ stage_log' = [n \in 1 .. Len(b.widgets) |->
                                      <<"on_encoder", b.widgets[n], delta>>]
                  /\ Callbacks(b.widgets /= <<>>, eff)
          /\ drained' = <<>>
          /\ ran' = Append(ran, "encoder")
          /\ pc' = next_stage("encoder")
          /\ UNCHANGED <<events, m4txevent, gate, sleep_at_entry,
                         swallowed, mapVars, touchVars, irqVars>>

StageEncoder == DispatchEncoder(LoopEncoderPositions, LoopFocus, LoopKeyConsumers)

\* Frames and on_touch answers that the loop is driven with.
LoopFrames == {f \in Frames : f.x = 0 /\ f.y = 0 /\ f.r < r_touch_threshold}
LoopConsumers == {{}, Widgets}

\* dispatch: EVT_MASK_TOUCH and handle_touch.
StageTouch ==
    /\ pc = "touch"
    /\ \/ Skip("touch") /\ UNCHANGED encoder_last
       \/ /\ "touch" \in events
          /\ \E f \in LoopFrames, c \in LoopConsumers, eff \in Effects :
               /\ HandleTouch(f, c)
               /\ Callbacks(on_touch_calls' /= <<>>, eff)
          /\ stage_log' = <<>>
          /\ drained' = <<>>
          /\ NoInput
          /\ ran' = Append(ran, "touch")
          /\ pc' = next_stage("touch")
          /\ UNCHANGED <<events, encoder_last, m4txevent, gate, sleep_at_entry,
                         swallowed, mapVars, irqVars>>

(***************************************************************************)
(* Specifications                                                          *)
(***************************************************************************)
Init == InitMap /\ InitTouch /\ InitDispatcher

\* The handler map driven through its registration objects and send.
NextMap ==
    \/ \E o \in RegObjects, id \in MessageIDs, h \in Handlers :
          RegistrationCtor(o, id, h) /\ UNCHANGED <<touchVars, dispVars, cycleVars, irqVars, inputVars>>
    \/ \E o \in RegObjects :
          RegistrationDtor(o) /\ UNCHANGED <<touchVars, dispVars, cycleVars, irqVars, inputVars>>
    \/ \E id \in AnyIDs : Send(id) /\ UNCHANGED <<touchVars, dispVars, cycleVars, irqVars, inputVars>>

SpecMap == Init /\ [][NextMap]_vars

\* The touch pipeline driven by a sequence of frames.
NextTouch ==
    \E f \in Frames, c \in SUBSET Widgets :
        /\ Emits(f) \/ c = {}
        /\ HandleTouch(f, c)
        /\ UNCHANGED <<mapVars, dispVars, cycleVars, irqVars, inputVars>>

SpecTouch == Init /\ [][NextTouch]_vars

\* The event loop: run() entered with one handler registered, for the
\* DisplayFrameSync message, by a live registration object, and no widget
\* hidden.
InitLoop ==
    /\ map_ = [id \in MessageIDs |-> IF id = DisplayFrameSyncID THEN 1 ELSE Null]
    /\ reg_id = [o \in RegObjects |-> IF o = 1 THEN DisplayFrameSyncID ELSE -1]
    /\ panicked = FALSE
    /\ last_registered = [id \in MessageIDs |-> IF id = DisplayFrameSyncID THEN 1 ELSE Null]
    /\ last_op = [op |-> "register", id |-> DisplayFrameSyncID, h |-> 1, obj |-> 1,
                  occupied |-> FALSE, calls |-> <<>>]
    /\ InitTouch
    /\ hidden = {}
    /\ InitDispatcher

Next ==
    \/ RunStart
    \/ \E evs \in SUBSET Stages : Wait(evs)
    \/ StageApplication
    \/ StageLocal
    \/ StageRtcTick
    \/ StageSwitches
    \/ StageLcdFrameSync
    \/ StageEncoder
    \/ StageTouch
    \/ RunExit

Spec == InitLoop /\ [][Next]_vars

\* A handler that drains the application queue in interrupt context.
isr_calls_drain(m, msgs) == drain(m, msgs)

\* M4Core_IRQHandler: the callbacks it invokes, the application queue holding
\* msgs: between prologue and epilogue it runs the two check_fifo_isr and
\* clears the notification, and calls nothing else.
isr_calls(m, msgs) == <<>>

\* EventDispatcher::check_fifo_isr: signal EVT_MASK_APPLICATION to the event
\* loop thread when the application queue is not empty.
check_fifo_isr(msgs, pending) == pending \/ (msgs /= <<>>)

\* The M4 core raises the cross-core notification.
M4Signal ==
    /\ ~m4_signal
    /\ m4_signal' = TRUE
    /\ UNCHANGED <<app_event, irq_log, mapVars, touchVars, dispVars, cycleVars, inputVars>>

\* The interrupt is taken: it is enabled (run() is between enable and
\* disable) and the notification is raised. msgs: what the application queue
\* holds at that moment.
M4Core_IRQHandler ==
    /\ m4txevent
    /\ m4_signal
    /\ \E msgs \in MsgSeqs :
          /\ app_event' = check_fifo_isr(msgs, app_event)
          /\ irq_log' = isr_calls(map_, msgs)
    /\ m4_signal' = FALSE
    /\ UNCHANGED <<mapVars, touchVars, dispVars, cycleVars, inputVars>>

\* The bits that lead to the handler map, the RTC tick and the switches.
QueueStages == Stages \ {"encoder", "touch"}

\* The event loop on its message side, with every queue load, interleaved
\* with the M4 core and its interrupt.
NextQueues ==
    \/ RunStart
    \/ \E evs \in SUBSET QueueStages : Wait(evs)
    \/ DispatchApplication(MsgSeqs)
    \/ DispatchLocal(MsgSeqs)
    \/ StageRtcTick
    \/ StageSwitches
    \/ StageLcdFrameSync
    \/ StageEncoder
    \/ StageTouch
    \/ RunExit
    \/ M4Signal
    \/ M4Core_IRQHandler

SpecQueues == InitLoop /\ [][NextQueues]_vars

\* The rotary encoder is turned to position p while the display is asleep
\* (a turn made while it is awake is what the next read of the position
\* finds).
EncoderTurn(p) ==
    /\ display_sleep
    /\ encoder_position /= p
    /\ encoder_position' = p
    /\ UNCHANGED <<focus_seen, consumer_seen, encoder_base, encoder_event, delta_sum,
                   mapVars, touchVars, dispVars, cycleVars, irqVars>>

\* The bits of the switches and of the encoder.
InputStages == {"switches", "encoder"}

\* The event loop on its key and encoder side, with any focused widget, any
\* consuming widget and any encoder position, the encoder turning while the
\* display is asleep too.
NextInput ==
    \/ RunStart
    \/ \E evs \in SUBSET InputStages : Wait(evs)
    \/ StageApplication
    \/ StageLocal
    \/ StageRtcTick
    \/ DispatchSwitches(WidgetOrNull, WidgetOrNull)
    \/ StageLcdFrameSync
    \/ DispatchEncoder(EncoderPositions, WidgetOrNull, WidgetOrNull)
    \/ StageTouch
    \/ RunExit
    \/ \E p \in EncoderPositions : EncoderTurn(p)

SpecInput == InitLoop /\ [][NextInput]_vars

(***************************************************************************)
(* Claims on the handler map                                               *)
(***************************************************************************)
LiveIDs == {reg_id[o] : o \in RegObjects} \ {-1}

\* C4: register_handler on an ID that already has a handler panics and leaves
\* the slot as it was; a registration on an empty slot stores the handler
\* without panic; in every non-panicked state the handler of an ID is the one
\* given by the latest registration that did not panic.
C4_DoubleRegistrationPanics ==
    /\ [](~panicked =>
            (\A id \in MessageIDs :
                (map_[id] /= Null) => (map_[id] = last_registered[id])))
    /\ [][(last_op'.op = "register") =>
            IF map_[last_op'.id] /= Null
            THEN panicked' /\ map_' = map_
            ELSE ~panicked' /\ map_' = [map_ EXCEPT ![last_op'.id] = last_op'.h]
         ]_mapVars

\* A second registration with another handler panicked and did not replace
\* the first handler.
C4_Witness ==
    /\ panicked
    /\ last_op.op = "register"
    /\ last_op.occupied
    /\ map_[last_op.id] /= Null
    /\ map_[last_op.id] /= last_op.h

\* C5: send invokes the registered handler exactly once when the ID is below
\* MAX and a handler is registered, otherwise it invokes nothing; it changes
\* no state of the map; a send that follows unregister_handler of its ID
\* invokes nothing; unregister_handler is idempotent and leaves an empty slot
\* (and the rest of the map) as it is.
C5_SendAndUnregister ==
    /\ [](last_op.op = "send" =>
            last_op.calls = IF last_op.id < ID_MAX /\ map_[last_op.id] /= Null
                            THEN <<map_[last_op.id]>>
                            ELSE <<>>)
    /\ [](\A id \in MessageIDs :
            /\ unregister_handler(unregister_handler(map_, id), id)
                  = unregister_handler(map_, id)
            /\ (map_[id] = Null) => (unregister_handler(map_, id) = map_))
    /\ [][(last_op'.op = "send") =>
            /\ map_' = map_
            /\ reg_id' = reg_id
            /\ panicked' = panicked
            /\ (last_op.op = "unregister" /\ last_op.id = last_op'.id)
                  => (last_op'.calls = <<>>)
         ]_mapVars

\* A send for an ID whose handler was registered and then unregistered
\* invoked nothing.
C5_Witness ==
    /\ last_op.op = "send"
    /\ last_op.id < ID_MAX
    /\ last_registered[last_op.id] /= Null
    /\ last_op.calls = <<>>

\* C6: while no registration panicked, an ID has a handler exactly when a
\* live registration object for that ID exists; after a registration object
\* is destroyed its slot is empty, and a send invokes a handler only for an
\* ID with a live registration object.
C6_HandlerIffLiveRegistration ==
    /\ ~panicked => (\A id \in MessageIDs : (map_[id] /= Null) <=> (id \in LiveIDs))
    /\ (last_op.op = "unregister") => (map_[last_op.id] = Null)
    /\ (last_op.op = "send" /\ last_op.calls /= <<>>) => (last_op.id \in LiveIDs)

\* One registration object was destroyed while another is still alive.
C6_Witness ==
    /\ last_op.op = "unregister"
    /\ last_op.occupied
    /\ map_[last_op.id] = Null
    /\ LiveIDs /= {}

(***************************************************************************)
(* Claims on the touch pipeline                                            *)
(***************************************************************************)
\* C1: the events emitted by feed are well bracketed: Start is emitted only
\* in NoTouch, after no event or an End, and moves to TouchDetected; Move is
\* emitted only in TouchDetected, after a Start or a Move, and stays there;
\* End is emitted only in TouchDetected, after a Start or a Move, and moves
\* to NoTouch; the state is TouchDetected exactly when the last emitted
\* event is Start or Move.
C1_WellBracketedGestures ==
    /\ []((state = "TouchDetected") <=> (last_emitted \in {"Start", "Move"}))
    /\ [][/\ (touch_event'.type = "Start") =>
                /\ state = "NoTouch"
                /\ state' = "TouchDetected"
                /\ last_emitted \in {"None", "End"}
          /\ (touch_event'.type = "Move") =>
                /\ state = "TouchDetected"
                /\ state' = "TouchDetected"
                /\ last_emitted \in {"Start", "Move"}
          /\ (touch_event'.type = "End") =>
                /\ state = "TouchDetected"
                /\ state' = "NoTouch"
                /\ last_emitted \in {"Start", "Move"}
          /\ (touch_event'.type = "None") => (state = "NoTouch" /\ state' = "NoTouch")
         ]_vars

\* A gesture was closed by an End caused by the pressure test failing while
\* contact remains (the filters still hold samples).
C1_Witness ==
    /\ touch_event.type = "End"
    /\ state = "NoTouch"
    /\ filter_x /= <<>>

\* C7: a Move or End event is delivered to the captured widget's on_touch and
\* to no other widget; the captured widget is what touch_widget returned for
\* the latest Start; it changes only on a Start event.
C7_CapturePersistence ==
    /\ []((touch_event.type \in {"Move", "End"}) =>
            (on_touch_calls = IF captured_widget = Null THEN <<>>
                              ELSE <<captured_widget>>))
    /\ [](captured_widget = hit_widget)
    /\ [][(captured_widget' /= captured_widget) => (touch_event'.type = "Start")]_vars

\* A Move whose point lies outside the captured widget 2 and inside widget 3,
\* which is visible and would consume it, was delivered to widget 2 alone.
C7_Witness ==
    /\ touch_event.type = "Move"
    /\ captured_widget = 2
    /\ ~contains(screen_rect[2], touch_event.point)
    /\ contains(screen_rect[3], touch_event.point)
    /\ 3 \in event_consumers
    /\ 3 \notin hidden
    /\ on_touch_calls = <<2>>

RECURSIVE Subtree(_)
Subtree(w) == {w} \cup UNION {Subtree(children[w][i]) : i \in 1 .. Len(children[w])}

RECURSIVE Shown(_)
\* w and all its ancestors are not hidden.
Shown(w) == w \notin hidden /\ (parent[w] = Null \/ Shown(parent[w]))

\* w would be returned by a hit test of touch_event that reached it.
Qualifies(w) ==
    /\ w \notin hidden
    /\ contains(screen_rect[w], touch_event.point)
    /\ w \in event_consumers

\* C8: on a Start event, when two or more children of a shown widget qualify
\* (not hidden, rectangle contains the point, on_touch consumes), the widget
\* returned by touch_widget is the one drawn last among them (or a widget of
\* its subtree), and no earlier-drawn qualifying sibling has its on_touch
\* invoked by the hit test.
C8_LastDrawnSiblingFirst ==
    (touch_event.type = "Start") =>
        \A p \in Widgets : \A i, j \in 1 .. Len(children[p]) :
            ( /\ i < j
              /\ Shown(p)
              /\ Qualifies(children[p][i])
              /\ Qualifies(children[p][j])
              /\ \A k \in (j + 1) .. Len(children[p]) : ~Qualifies(children[p][k]) )
            => /\ hit_widget \in Subtree(children[p][j])
               /\ \A n \in 1 .. Len(on_touch_calls) : on_touch_calls[n] /= children[p][i]

(***************************************************************************)
(* Claims on the run loop and dispatch                                     *)
(***************************************************************************)
InRan(st) == \E n \in 1 .. Len(ran) : ran[n] = st

\* dispatch has passed the test of the bit of st in this cycle.
Passed(st) == (pc \notin Stages) \/ (StageIndex(st) < StageIndex(pc))

\* Every handler whose test dispatch has passed was invoked exactly when its
\* bit is pending and, for the last three, the gate was found open.
RanWhatIsPending ==
    \A st \in Stages :
        Passed(st) =>
            (InRan(st) <=> (st \in events /\ (st \in GatedStages => gate = "open")))

IsKeyCall(e) == e[1] \in {"on_key", "update"}

\* C3: when handle_switches runs with display_sleep = true it invokes no
\* on_key and no focus_manager().update, and display_sleep becomes false
\* exactly when a switch is active; no later stage of that cycle invokes
\* on_key or update either.
C3_SwitchesSwallowedWhileAsleep ==
    /\ [](swallowed => \A n \in 1 .. Len(stage_log) : ~IsKeyCall(stage_log[n]))
    /\ [][(pc = "switches" /\ "switches" \in events /\ display_sleep) =>
            /\ swallowed'
            /\ stage_log' = <<>>
            /\ display_sleep' = (switches_seen' = {})
         ]_vars

\* handle_switches ran asleep with a switch active: the display is awake,
\* nothing was forwarded and dispatch goes on to the frame-sync test.
C3_Witness ==
    /\ pc = "lcd"
    /\ sleep_at_entry
    /\ swallowed
    /\ switches_seen /= {}
    /\ ~display_sleep
    /\ stage_log = <<>>

\* C9: the handlers invoked in a cycle are invoked in the order application
\* queue, local queue, RTC tick, switches, LCD frame-sync, encoder, touch,
\* each at most once, and only for pending bits; once dispatch has passed a
\* test, its handler was invoked exactly when its bit is pending (and, for
\* the last three, the gate was open).
C9_FixedDispatchOrder ==
    /\ \A n \in 1 .. Len(ran) : ran[n] \in events
    /\ \A n, k \in 1 .. Len(ran) : (n < k) => (StageIndex(ran[n]) < StageIndex(ran[k]))
    /\ RanWhatIsPending

\* A cycle in which all seven handlers ran, in order.
C9_Witness ==
    /\ pc = "loop"
    /\ ran = StageOrder

\* C10: request_stop only clears is_running, which stays false; dispatch
\* never leaves a cycle because of it (every stage goes on to the next one
\* or to the loop, and at the end of the cycle every pending handler has
\* run); back at the loop with is_running false, run() neither waits nor
\* dispatches again: it disables the cross-core notification and returns.
C10_CooperativeStop ==
    /\ [](~is_running => RanWhatIsPending)
    /\ [](pc = "done" => (~is_running /\ ~m4txevent))
    /\ [][/\ (pc \in Stages) => (pc' \in Stages \cup {"loop"})
          /\ (pc = "loop" /\ ~is_running) => (pc' = "done" /\ ~m4txevent')
          /\ (pc' = "done") => (pc = "loop" /\ ~is_running)
          /\ ~is_running => ~is_running'
         ]_vars

\* run() has returned after a cycle in which all seven handlers ran and the
\* last one, the touch handler, invoked no callback: request_stop was called
\* by an earlier handler and the remaining stages still ran.
C10_Witness ==
    /\ pc = "done"
    /\ ~m4txevent
    /\ ran = StageOrder
    /\ on_touch_calls = <<>>

AlwaysStages == {"application", "local", "rtc"}

\* The handler invocations that delivering msgs, in order, to the handlers
\* registered in m amounts to.
Deliveries(m, msgs) ==
    LET deliverable(id) == id \in MessageIDs /\ m[id] /= Null
        kept == SelectSeq(msgs, deliverable)
    IN [n \in 1 .. Len(kept) |-> <<"handler", m[kept[n]], kept[n]>>]

\* C11: whatever display_sleep is, once dispatch has passed the test of the
\* application-queue, local-queue or RTC-tick bit its handler was invoked
\* exactly when the bit is pending; the application and local stages with
\* their bit pending hand every message the queue holds to the handler map,
\* in order, and the RTC stage with its bit pending runs the tick handler
\* (a step that leaves pc alone is the interrupt's, not the loop's).
C11_QueuesAndTickAlwaysHandled ==
    /\ [](\A st \in AlwaysStages :
            Passed(st) => (InRan(st) <=> st \in events))
    /\ [][\A st \in AlwaysStages :
            (pc = st /\ pc' /= st /\ st \in events) =>
                /\ ran' = Append(ran, st)
                /\ (st /= "rtc") => (stage_log' = Deliveries(map_, drained'))
         ]_vars

\* In a cycle entered asleep the application queue held a full load of
\* messages, some with a registered handler and some without; the former
\* were delivered while the display was still asleep.
C11_Witness ==
    /\ pc = "local"
    /\ sleep_at_entry
    /\ display_sleep
    /\ ran = <<"application">>
    /\ Len(drained) = MaxQueue
    /\ stage_log /= <<>>
    /\ Len(stage_log) < Len(drained)

HasHandlerCall(log) == \E n \in 1 .. Len(log) : log[n][1] = "handler"

\* C12: however the M4 core interrupt interleaves with the dispatch loop, the
\* interrupt handler invokes no callback: a run of it clears the
\* notification, may signal the application-queue event, and leaves the
\* handler map and all state of the loop as they are; a registered handler
\* is invoked only by a step of the loop at the application-queue,
\* local-queue or frame-sync stage with that stage's bit pending.
C12_NoHandlerInInterrupt ==
    /\ [](irq_log = <<>>)
    /\ [][/\ (m4_signal /\ ~m4_signal') =>
                /\ irq_log' = <<>>
                /\ UNCHANGED <<mapVars, touchVars, dispVars, cycleVars>>
          /\ (app_event' /\ ~app_event) => (m4_signal /\ ~m4_signal')
          /\ (pc' = pc) => (stage_log' = stage_log)
          /\ (pc' /= pc /\ HasHandlerCall(stage_log')) =>
                /\ pc \in {"application", "local", "lcd"}
                /\ pc \in events
         ]_vars

\* The interrupt was taken in the middle of a dispatch cycle, after wait()
\* returned: it signalled the application-queue event and cleared the
\* notification, and the handler invocations of the cycle are those of the
\* local-queue stage.
C12_Witness ==
    /\ pc = "rtc"
    /\ app_event
    /\ ~m4_signal
    /\ m4txevent
    /\ irq_log = <<>>
    /\ ran = <<"local">>
    /\ HasHandlerCall(stage_log)

RECURSIVE Chain(_)
\* w and its ancestors, from w up to the root.
Chain(w) == IF w = Null THEN <<>> ELSE <<w>> \o Chain(parent[w])

\* The places of consumer on the parent chain of focus.
HitsOnChain(focus, consumer) ==
    {i \in 1 .. Len(Chain(focus)) : Chain(focus)[i] = consumer}

\* The widgets a walk from focus asks: the chain up to and including the
\* first widget that consumes, or all of it.
Walk(focus, consumer) ==
    LET hits == HitsOnChain(focus, consumer)
    IN IF hits = {} THEN Chain(focus)
       ELSE SubSeq(Chain(focus), 1,
                   CHOOSE i \in hits : \A j \in hits : i <= j)

\* What a key event is to cause: on_key along the walk, then the focus
\* manager's update exactly when nothing consumed the event.
KeyLog(key, focus, consumer) ==
    [n \in 1 .. Len(Walk(focus, consumer)) |-> <<"on_key", Walk(focus, consumer)[n], key>>]
      \o (IF HitsOnChain(focus, consumer) = {} THEN <<<<"update", key>>>> ELSE <<>>)

RECURSIVE KeysLog(_, _, _)
\* The same for the active switches keys, in ascending order.
KeysLog(keys, focus, consumer) ==
    IF keys = {} THEN <<>>
    ELSE LET k == CHOOSE i \in keys : \A j \in keys : i <= j
         IN KeyLog(k, focus, consumer) \o KeysLog(keys \ {k}, focus, consumer)

\* C13: a key event of an awake display invokes on_key on the focused widget
\* and then on its ancestors in parent-chain order, up to and including the
\* first widget that returns true, and invokes the focus manager's update
\* for that key exactly when no widget of the chain (or no focused widget)
\* consumed it; an encoder event invokes on_encoder along the same walk and
\* never the focus manager.
C13_ParentChainBubbling ==
    [][/\ (pc = "switches" /\ pc' /= pc /\ "switches" \in events /\ ~display_sleep) =>
             stage_log' = KeysLog(switches_seen', focus_seen', consumer_seen')
       /\ (pc = "encoder" /\ pc' /= pc /\ "encoder" \in events) =>
             LET walk == Walk(focus_seen', consumer_seen')
             IN /\ Len(stage_log') = Len(walk)
                /\ \A n \in 1 .. Len(walk) :
                      /\ stage_log'[n][1] = "on_encoder"
                      /\ stage_log'[n][2] = walk[n]
                      /\ stage_log'[n][3] = encoder_event'.delta
      ]_vars

\* Every switch was active with widget 4 focused and its parent, widget 2,
\* consuming the key: each key went to on_key of 4 and of 2, not to the root
\* and not to the focus manager.
C13_Witness ==
    /\ pc = "lcd"
    /\ switches_seen = Switches
    /\ focus_seen = 4
    /\ consumer_seen = 2
    /\ Len(stage_log) = 2 * NumSwitches
    /\ \A n \in 1 .. Len(stage_log) : stage_log[n][1] = "on_key" /\ stage_log[n][2] /= top_widget

\* The values the state member may hold when feed is entered: the two
\* enumerators and a value that is neither.
FeedStates == {"NoTouch", "TouchDetected", "Corrupt"}

\* The transition table of the claim.
TransitionTable(st, contact, pressure, stable) ==
    IF st = "NoTouch"
    THEN IF contact /\ pressure /\ stable
         THEN [state |-> "TouchDetected", type |-> "Start"]
         ELSE [state |-> "NoTouch", type |-> "None"]
    ELSE IF st = "TouchDetected"
    THEN IF contact /\ pressure
         THEN [state |-> "TouchDetected", type |-> "Move"]
         ELSE [state |-> "NoTouch", type |-> "End"]
    ELSE [state |-> "NoTouch", type |-> "None"]

\* C14: with the filters as any sequence of feeds leaves them, a feed of any
\* frame in any state value emits at most one event, and its next state and
\* event are those of the transition table over the state, the contact flag,
\* the pressure test and point_stable() as it is after the filters took the
\* frame.
C14_FeedTransitionTable ==
    \A st \in FeedStates, frame \in Frames :
        LET f == feed(st, filter_x, filter_y, frame)
            row == TransitionTable(st, frame.touch, frame.r < r_touch_threshold,
                                   point_stable(f.filter_x, f.filter_y))
        IN /\ f.state = row.state
           /\ f.event.type = row.type
           /\ f.event.type \in {"None", "Start", "Move", "End"}

\* A feed in NoTouch with contact and pressure left the filters full and
\* not stable, and emitted nothing; a further frame with contact and
\* pressure would be a Move, were the state TouchDetected.
C14_Witness ==
    /\ state = "NoTouch"
    /\ touch_event.type = "None"
    /\ last_emitted = "End"
    /\ Len(filter_x) = FilterLen
    /\ ~point_stable(filter_x, filter_y)
    /\ \E frame \in Frames :
          /\ ~point_stable(feed("TouchDetected", filter_x, filter_y, frame).filter_x,
                           feed("TouchDetected", filter_x, filter_y, frame).filter_y)
          /\ feed("TouchDetected", filter_x, filter_y, frame).event.type = "Move"

\* C15: at each Start the filters hold only samples fed after the preceding
\* End, whether that End came from loss of contact or from the pressure test
\* failing while contact remained.
C15_NoStaleSamplesAtStart ==
    (touch_event.type = "Start") => (filter_stale = 0)

\* The on_touch invocations of the hit test of the latest Start event: those
\* of the feed without the delivery to the captured widget that follows.
HitTestCalls ==
    IF hit_widget /= Null
    THEN SubSeq(on_touch_calls, 1, Len(on_touch_calls) - 1)
    ELSE on_touch_calls

\* C16: for a Start event, touch_widget invokes on_touch on no hidden widget
\* and on no descendant of one, and returns none of them; the widget it
\* returns contains the point and consumed the event; a widget is asked
\* after its descendants, so that the returned widget has no shown
\* descendant that contains the point and consumes; it returns null exactly
\* when no shown widget contains the point and consumes.
C16_HitTestSkipsHiddenDescendsFirst ==
    (touch_event.type = "Start") =>
        /\ \A n \in 1 .. Len(on_touch_calls) : Shown(on_touch_calls[n])
        /\ \A n \in 1 .. Len(on_touch_calls) :
              contains(screen_rect[on_touch_calls[n]], touch_event.point)
        /\ (hit_widget /= Null) => (Shown(hit_widget) /\ Qualifies(hit_widget))
        /\ \A i, j \in 1 .. Len(HitTestCalls) :
              (i < j) => (HitTestCalls[j] \notin Subtree(HitTestCalls[i]))
        /\ \A d \in Widgets :
              (hit_widget /= Null /\ d \in Subtree(hit_widget) \ {hit_widget})
                  => ~(Shown(d) /\ Qualifies(d))
        /\ (hit_widget = Null) <=> (\A w \in Widgets : ~(Shown(w) /\ Qualifies(w)))

\* Widget 2 is hidden; the Start point lies inside it and inside its child,
\* widget 4, and every widget would consume: neither was asked, and the
\* root, which also contains the point, was returned.
C16_Witness ==
    /\ touch_event.type = "Start"
    /\ hidden = {2}
    /\ event_consumers = Widgets
    /\ contains(screen_rect[4], touch_event.point)
    /\ hit_widget = top_widget
    /\ HitTestCalls = <<top_widget>>

\* The value encoder_last has when the dispatcher is constructed.
EncoderLastAtStart == U32(0, 0)

\* C17: every encoder event that handle_encoder passes on carries a delta d
\* in the range of int32_t with encoder_last + d = encoder_now modulo 2^32,
\* and encoder_last is encoder_now afterwards; so the sum of all deltas
\* passed on is, modulo 2^32, the change of position since the first
\* encoder_last, also when the position counter wraps around.
C17_EncoderDeltaModulo ==
    /\ [](add_u32(EncoderLastAtStart, delta_sum) = encoder_last)
    /\ [][(pc = "encoder" /\ pc' /= pc /\ "encoder" \in events) =>
            /\ encoder_event'.delivered
            /\ encoder_event'.delta >= -2147483647 - 1
            /\ encoder_event'.delta <= 2147483647
            /\ add_u32(encoder_last, from_int32(encoder_event'.delta)) = encoder_position'
            /\ encoder_last' = encoder_position'
         ]_vars

\* The position counter wrapped around from 2^32 - 1 to 1 between two
\* encoder events: the second carries a delta of 2, and the sum of the
\* deltas so far is 1.
C17_Witness ==
    /\ pc = "touch"
    /\ encoder_event = [delivered |-> TRUE, delta |-> 2]
    /\ encoder_last = U32(0, 1)
    /\ delta_sum = U32(0, 1)

\* C18: a Start event for which touch_widget returns null leaves no widget
\* captured, whatever was captured before: that feed asks only widgets that
\* do not consume, and the feeds of the Move and End events of the gesture
\* invoke no on_touch at all.
C18_NullCaptureAfterMiss ==
    /\ []((touch_event.type /= "None" /\ hit_widget = Null) =>
            /\ captured_widget = Null
            /\ (touch_event.type \in {"Move", "End"}) => (on_touch_calls = <<>>))
    /\ [][(touch_event'.type = "Start" /\ hit_widget' = Null) =>
            /\ captured_widget' = Null
            /\ \A n \in 1 .. Len(on_touch_calls') :
                  on_touch_calls'[n] \notin event_consumers'
         ]_vars

\* A Move of a gesture whose Start hit no widget went to no widget, though
\* its point lies in shown widgets that would all consume it.
C18_Witness ==
    /\ touch_event.type = "Move"
    /\ hit_widget = Null
    /\ captured_widget = Null
    /\ on_touch_calls = <<>>
    /\ hidden = {}
    /\ event_consumers = Widgets

\* How often the latest feed invoked on_touch of w.
TimesAsked(w) == Cardinality({n \in 1 .. Len(on_touch_calls) : on_touch_calls[n] = w})

\* C19: for every touch event passed to on_touch_event, each widget's
\* on_touch is invoked at most once with it, and the widget that consumes a
\* Start in the hit test receives that Start exactly once.
C19_OnTouchAtMostOncePerEvent ==
    /\ \A w \in Widgets : TimesAsked(w) <= 1
    /\ (touch_event.type = "Start" /\ hit_widget /= Null) => (TimesAsked(hit_widget) = 1)

\* C20: encoder movement made while the display is asleep is discarded: an
\* encoder event delivered to a widget carries the change of position since
\* the latest of the previous handled encoder event and the wake of the
\* display, so that the first event after a wake carries only the movement
\* made after that wake.
C20_SleepMovementDiscarded ==
    [][(pc = "encoder" /\ pc' /= pc /\ "encoder" \in events /\ focus_seen' /= Null) =>
          add_u32(encoder_base, from_int32(encoder_event'.delta)) = encoder_position'
      ]_vars

====
